---- MODULE Spec2Model ----
(***************************************************************************)
(* Binary search tree visualisation: Node.js (the nodes and their layout), *)
(* Tree.js (the tree and its timer-driven animations) and Controls.js (the *)
(* buttons that start the animations).                                     *)
(*                                                                         *)
(* A tree is a function from node references to node records.  A reference *)
(* is the path from the root (a sequence of 0 = leftNode, 1 = rightNode),  *)
(* so that the objects created by `new Node(buffer, this)` get a fresh     *)
(* name; the fields leftNode, rightNode and parent hold such references.   *)
(***************************************************************************)
EXTENDS Integers, Sequences, FiniteSets, Bags, TLC

\* ------------------------------------------------------------------------
\* Bounds of the model
\* ------------------------------------------------------------------------

\* the values a user can type into the Add prompt: 0 .. MaxVal-1
MaxVal == 3

\* the counts a user can type into the Fill and Quick Fill prompts: 0 .. MaxCount
MaxCount == 2

\* the number of completion timers that may be pending at the same time
MaxPending == 2

\* the number of frames of one animation that are followed
MaxSteps == 6

\* the values a script hands to the synchronous Tree.addValue: 0 .. MaxSync-1
MaxSync == 5

\* the number of mouse and wheel events on the canvas that are followed
MaxEvents == 4

Vals == 0 .. (MaxVal - 1)

\* the values of the synchronous calls
SyncVals == 0 .. (MaxSync - 1)

\* the values a user can type into the Search prompt
SearchVals == 0 .. MaxVal

Counts == 0 .. MaxCount

\* ------------------------------------------------------------------------
\* Node.js
\* ------------------------------------------------------------------------

\* value of a node that is not filled (this.value = null); real values are >= 0
Null == -1

\* the null reference (this.parent of the root, the children of an unfilled node)
NoNode == <<2>>

\* the reference of the root of a tree
RootRef == <<>>

\* result of a call that returns undefined
Undefined == <<3>>

HORIZONTALSPACING == 15

VERTICALSPACING == 50

\* x and y of the root node (sketch.js: CANVASWIDTH / 2 for a window 800 wide, 100)
TREEX == 400

TREEY == 100

\* new Node(graphicsBuffer, parent)
NewNode(parent) ==
    [value |-> Null, leftNode |-> NoNode, rightNode |-> NoNode, parent |-> parent,
     x |-> 0, y |-> 0, rightSpacing |-> 0, leftSpacing |-> 0,
     cumulativeRightSpacing |-> 0, cumulativeLeftSpacing |-> 0,
     color |-> "COLOR", edgeColor |-> "EDGECOLOR"]

\* the tree that holds only a new, unfilled root
EmptyTree == [n \in {RootRef} |-> NewNode(NoNode)]

isFilled(t, n) == t[n].value # Null

\* the fill branch of Node.addValue that gives the new children no parent
FillNodeNoParent(t, n, value) ==
    LET l == Append(n, 0)
        r == Append(n, 1)
    IN [m \in DOMAIN t \cup {l, r} |->
          IF m = n THEN [t[n] EXCEPT !.value = value, !.leftNode = l, !.rightNode = r]
          ELSE IF m = l \/ m = r THEN NewNode(NoNode)
          ELSE t[m]]

\* the fill branch of Node.addValue: the value and the two new children
FillNode(t, n, value) ==
    LET l == Append(n, 0)
        r == Append(n, 1)
    IN [m \in DOMAIN t \cup {l, r} |->
          IF m = n THEN [t[n] EXCEPT !.value = value, !.leftNode = l, !.rightNode = r]
          ELSE IF m = l \/ m = r THEN NewNode(n)
          ELSE t[m]]

\* Node.addValue whose second branch also adds to this.leftNode
RECURSIVE NodeAddValueAlwaysLeft(_, _, _)
NodeAddValueAlwaysLeft(t, n, value) ==
    IF ~isFilled(t, n) THEN
        [t |-> FillNode(t, n, value), ret |-> n]
    ELSE IF value # t[n].value THEN
        LET l == t[n].leftNode
            initialLeftSpacing == t[l].cumulativeRightSpacing + HORIZONTALSPACING
            sub == NodeAddValueAlwaysLeft(t, l, value)
            t1 == sub.t
            leftSpacing == t1[l].cumulativeRightSpacing + HORIZONTALSPACING
            t2 == [t1 EXCEPT ![n].leftSpacing = leftSpacing,
                             ![n].cumulativeLeftSpacing =
                                 t1[l].cumulativeLeftSpacing + leftSpacing]
        IN [t |-> t2,
            ret |-> IF leftSpacing # initialLeftSpacing THEN l ELSE sub.ret]
    ELSE
        [t |-> t, ret |-> Undefined]

\* Node.addValue that leaves this.leftSpacing and this.rightSpacing as they were
RECURSIVE NodeAddValueStaleSpacing(_, _, _)
NodeAddValueStaleSpacing(t, n, value) ==
    IF ~isFilled(t, n) THEN
        [t |-> FillNode(t, n, value), ret |-> n]
    ELSE IF value < t[n].value THEN
        LET l == t[n].leftNode
            sub == NodeAddValueStaleSpacing(t, l, value)
            t1 == sub.t
            t2 == [t1 EXCEPT ![n].cumulativeLeftSpacing =
                                 t1[l].cumulativeLeftSpacing + t1[n].leftSpacing]
        IN [t |-> t2, ret |-> sub.ret]
    ELSE IF value > t[n].value THEN
        LET r == t[n].rightNode
            sub == NodeAddValueStaleSpacing(t, r, value)
            t1 == sub.t
            t2 == [t1 EXCEPT ![n].cumulativeRightSpacing =
                                 t1[r].cumulativeRightSpacing + t1[n].rightSpacing]
        IN [t |-> t2, ret |-> sub.ret]
    ELSE
        [t |-> t, ret |-> Undefined]

\* Node.addValue whose cumulative spacing counts only the node's own spacing
RECURSIVE NodeAddValueOwnSpacing(_, _, _)
NodeAddValueOwnSpacing(t, n, value) ==
    IF ~isFilled(t, n) THEN
        [t |-> FillNode(t, n, value), ret |-> n]
    ELSE IF value < t[n].value THEN
        LET l == t[n].leftNode
            initialLeftSpacing == t[l].cumulativeRightSpacing + HORIZONTALSPACING
            sub == NodeAddValueOwnSpacing(t, l, value)
            t1 == sub.t
            leftSpacing == t1[l].cumulativeRightSpacing + HORIZONTALSPACING
            t2 == [t1 EXCEPT ![n].leftSpacing = leftSpacing,
                             ![n].cumulativeLeftSpacing = leftSpacing]
        IN [t |-> t2,
            ret |-> IF leftSpacing # initialLeftSpacing THEN l ELSE sub.ret]
    ELSE IF value > t[n].value THEN
        LET r == t[n].rightNode
            rightSpacing == t[r].cumulativeLeftSpacing + HORIZONTALSPACING
            sub == NodeAddValueOwnSpacing(t, r, value)
            t1 == sub.t
            newRightSpacing == t1[r].cumulativeLeftSpacing + HORIZONTALSPACING
            t2 == [t1 EXCEPT ![n].rightSpacing = newRightSpacing,
                             ![n].cumulativeRightSpacing = newRightSpacing]
        IN [t |-> t2,
            ret |-> IF newRightSpacing # rightSpacing THEN r ELSE sub.ret]
    ELSE
        [t |-> t, ret |-> Undefined]

\* Node.addValue that returns the child it descended to, shifted or not
RECURSIVE NodeAddValueReturnsChild(_, _, _)
NodeAddValueReturnsChild(t, n, value) ==
    IF ~isFilled(t, n) THEN
        [t |-> FillNode(t, n, value), ret |-> n]
    ELSE IF value < t[n].value THEN
        LET l == t[n].leftNode
            sub == NodeAddValueReturnsChild(t, l, value)
            t1 == sub.t
            leftSpacing == t1[l].cumulativeRightSpacing + HORIZONTALSPACING
            t2 == [t1 EXCEPT ![n].leftSpacing = leftSpacing,
                             ![n].cumulativeLeftSpacing =
                                 t1[l].cumulativeLeftSpacing + leftSpacing]
        IN [t |-> t2, ret |-> l]
    ELSE IF value > t[n].value THEN
        LET r == t[n].rightNode
            sub == NodeAddValueReturnsChild(t, r, value)
            t1 == sub.t
            newRightSpacing == t1[r].cumulativeLeftSpacing + HORIZONTALSPACING
            t2 == [t1 EXCEPT ![n].rightSpacing = newRightSpacing,
                             ![n].cumulativeRightSpacing =
                                 t1[r].cumulativeRightSpacing + newRightSpacing]
        IN [t |-> t2, ret |-> r]
    ELSE
        [t |-> t, ret |-> Undefined]

\* Node.addValue, called on node n of t: the tree afterwards and the node returned
RECURSIVE NodeAddValue(_, _, _)
NodeAddValue(t, n, value) ==
    IF ~isFilled(t, n) THEN
        [t |-> FillNode(t, n, value), ret |-> n]
    ELSE IF value < t[n].value THEN
        LET l == t[n].leftNode
            initialLeftSpacing == t[l].cumulativeRightSpacing + HORIZONTALSPACING
            sub == NodeAddValue(t, l, value)
            t1 == sub.t
            leftSpacing == t1[l].cumulativeRightSpacing + HORIZONTALSPACING
            t2 == [t1 EXCEPT ![n].leftSpacing = leftSpacing,
                             ![n].cumulativeLeftSpacing =
                                 t1[l].cumulativeLeftSpacing + leftSpacing]
        IN [t |-> t2,
            ret |-> IF leftSpacing # initialLeftSpacing THEN l ELSE sub.ret]
    ELSE IF value > t[n].value THEN
        LET r == t[n].rightNode
            rightSpacing == t[r].cumulativeLeftSpacing + HORIZONTALSPACING
            sub == NodeAddValue(t, r, value)
            t1 == sub.t
            newRightSpacing == t1[r].cumulativeLeftSpacing + HORIZONTALSPACING
            t2 == [t1 EXCEPT ![n].rightSpacing = newRightSpacing,
                             ![n].cumulativeRightSpacing =
                                 t1[r].cumulativeRightSpacing + newRightSpacing]
        IN [t |-> t2,
            ret |-> IF newRightSpacing # rightSpacing THEN r ELSE sub.ret]
    ELSE
        [t |-> t, ret |-> Undefined]

\* Node.setCoordinates() that does not go on to the children
NodeSetCoordinatesShallow(t, n) ==
    IF isFilled(t, n) THEN
        LET p == t[n].parent
            x == IF t[n].value < t[p].value THEN t[p].x - t[p].leftSpacing
                 ELSE t[p].x + t[p].rightSpacing
        IN [t EXCEPT ![n].x = x, ![n].y = t[p].y + VERTICALSPACING]
    ELSE t

\* Node.setCoordinates() that places a left child with rightSpacing and a right
\* child with leftSpacing
RECURSIVE NodeSetCoordinatesWrongSpacing(_, _)
NodeSetCoordinatesWrongSpacing(t, n) ==
    IF isFilled(t, n) THEN
        LET p == t[n].parent
            x == IF t[n].value < t[p].value THEN t[p].x - t[p].rightSpacing
                 ELSE t[p].x + t[p].leftSpacing
            t1 == [t EXCEPT ![n].x = x, ![n].y = t[p].y + VERTICALSPACING]
        IN NodeSetCoordinatesWrongSpacing(
              NodeSetCoordinatesWrongSpacing(t1, t1[n].leftNode), t1[n].rightNode)
    ELSE t

\* Node.setCoordinates() without arguments, and the recursion of both forms
RECURSIVE NodeSetCoordinates(_, _)
NodeSetCoordinates(t, n) ==
    IF isFilled(t, n) THEN
        LET p == t[n].parent
            x == IF t[n].value < t[p].value THEN t[p].x - t[p].leftSpacing
                 ELSE t[p].x + t[p].rightSpacing
            t1 == [t EXCEPT ![n].x = x, ![n].y = t[p].y + VERTICALSPACING]
        IN NodeSetCoordinates(NodeSetCoordinates(t1, t1[n].leftNode), t1[n].rightNode)
    ELSE t

\* Node.setCoordinates(x, y)
NodeSetCoordinatesAt(t, n, x, y) ==
    IF isFilled(t, n) THEN
        LET t1 == [t EXCEPT ![n].x = x, ![n].y = y]
        IN NodeSetCoordinates(NodeSetCoordinates(t1, t1[n].leftNode), t1[n].rightNode)
    ELSE t

\* Node.search that descends to the wrong child
RECURSIVE NodeSearchSwapped(_, _, _)
NodeSearchSwapped(t, n, value) ==
    IF ~isFilled(t, n) THEN FALSE
    ELSE IF t[n].value = value THEN TRUE
    ELSE IF value < t[n].value THEN NodeSearchSwapped(t, t[n].rightNode, value)
    ELSE NodeSearchSwapped(t, t[n].leftNode, value)

\* Node.search
RECURSIVE NodeSearch(_, _, _)
NodeSearch(t, n, value) ==
    IF ~isFilled(t, n) THEN FALSE
    ELSE IF t[n].value = value THEN TRUE
    ELSE IF value < t[n].value THEN NodeSearch(t, t[n].leftNode, value)
    ELSE NodeSearch(t, t[n].rightNode, value)

\* Node.recursivePaint that does not descend to the children
recursivePaintShallow(t, n, color) ==
    IF isFilled(t, n) THEN [t EXCEPT ![n].color = color, ![n].edgeColor = color]
    ELSE t

\* Node.recursivePaint
RECURSIVE recursivePaint(_, _, _)
recursivePaint(t, n, color) ==
    IF isFilled(t, n) THEN
        LET t1 == [t EXCEPT ![n].color = color, ![n].edgeColor = color]
        IN recursivePaint(recursivePaint(t1, t1[n].leftNode, color),
                          t1[n].rightNode, color)
    ELSE t

\* Node.paint (the redraw changes no field)
paint(t, n, color) == [t EXCEPT ![n].color = color, ![n].edgeColor = color]

\* Node.resetVisuals (size, stroke and the text fields are never changed)
RECURSIVE NodeResetVisuals(_, _)
NodeResetVisuals(t, n) ==
    IF isFilled(t, n) THEN
        LET t1 == [t EXCEPT ![n].color = "COLOR", ![n].edgeColor = "EDGECOLOR"]
        IN NodeResetVisuals(NodeResetVisuals(t1, t1[n].leftNode), t1[n].rightNode)
    ELSE t

\* ------------------------------------------------------------------------
\* sketch.js: the Explorer and the transformation of the graphics buffer.
\* The numbers of JavaScript are modelled as exact fractions [n, d], in lowest
\* terms with d > 0; the rounding of its floating-point arithmetic is not.
\* ------------------------------------------------------------------------

\* width and height of the window the page is shown in
CANVASWIDTH == 800

CANVASHEIGHT == 600

Abs(i) == IF i < 0 THEN -i ELSE i

RECURSIVE GCD(_, _)
GCD(i, j) == IF j = 0 THEN i ELSE GCD(j, i % j)

\* the fraction n / d
Rat(n, d) ==
    LET g == GCD(Abs(n), Abs(d))
    IN IF d < 0 THEN [n |-> -(n \div g), d |-> (-d) \div g]
       ELSE [n |-> n \div g, d |-> d \div g]

RAdd(x, y) ==
    LET g == GCD(x.d, y.d)
    IN Rat(x.n * (y.d \div g) + y.n * (x.d \div g), x.d * (y.d \div g))

RNeg(x) == [n |-> -x.n, d |-> x.d]

RSub(x, y) == RAdd(x, RNeg(y))

RMul(x, y) ==
    LET x1 == Rat(x.n, y.d)
        y1 == Rat(y.n, x.d)
    IN Rat(x1.n * y1.n, x1.d * y1.d)

\* 1 / x
RInv(x) == Rat(x.d, x.n)

\* x to the power k, for an integer k
RECURSIVE RPow(_, _)
RPow(x, k) ==
    IF k = 0 THEN Rat(1, 1)
    ELSE IF k < 0 THEN RPow(RInv(x), -k)
    ELSE RMul(x, RPow(x, k - 1))

\* Explorer.ZOOMFACTOR = 1.1
ZOOMFACTOR == Rat(11, 10)

\* the current transformation of the graphics buffer: the point (x, y) of the
\* picture is drawn at (a * x + e, d * y + f); translate and scale leave the
\* other two entries of the matrix 0
Identity == [a |-> Rat(1, 1), d |-> Rat(1, 1), e |-> Rat(0, 1), f |-> Rat(0, 1)]

\* graphicsBuffer.translate(x, y)
translate(m, x, y) ==
    [m EXCEPT !.e = RAdd(m.e, RMul(m.a, x)), !.f = RAdd(m.f, RMul(m.d, y))]

\* graphicsBuffer.scale(s)
scale(m, s) == [m EXCEPT !.a = RMul(m.a, s), !.d = RMul(m.d, s)]

\* new Explorer(canvas, graphicsBuffer, drawFunction): its fields, the
\* transformation of the buffer, and whether its last handler called drawFunction
NewExplorer ==
    [offsetX |-> Rat(0, 1), offsetY |-> Rat(0, 1), zoom |-> Rat(1, 1),
     zoomFactor |-> ZOOMFACTOR, buffer |-> Identity, drawn |-> FALSE]

\* Explorer.mouseMove that translates by the movement of the pointer itself
ExplorerMouseMoveUnscaled(x, mouseIsPressed, movementX, movementY) ==
    IF mouseIsPressed THEN
        LET deltaX == Rat(movementX, 1)
            deltaY == Rat(movementY, 1)
        IN [x EXCEPT !.buffer = translate(x.buffer, deltaX, deltaY),
                     !.offsetX = RAdd(x.offsetX, deltaX),
                     !.offsetY = RAdd(x.offsetY, deltaY),
                     !.drawn = TRUE]
    ELSE [x EXCEPT !.drawn = FALSE]

\* Explorer.mouseMove
ExplorerMouseMove(x, mouseIsPressed, movementX, movementY) ==
    IF mouseIsPressed THEN
        LET deltaX == RMul(RInv(x.zoom), Rat(movementX, 1))
            deltaY == RMul(RInv(x.zoom), Rat(movementY, 1))
        IN [x EXCEPT !.buffer = translate(x.buffer, deltaX, deltaY),
                     !.offsetX = RAdd(x.offsetX, deltaX),
                     !.offsetY = RAdd(x.offsetY, deltaY),
                     !.drawn = TRUE]
    ELSE [x EXCEPT !.drawn = FALSE]

\* Explorer.wheel that zooms in for every event with deltaY # 0
ExplorerWheelAlwaysIn(x, eventDeltaY) ==
    LET deltaX == RSub(Rat(CANVASWIDTH, 2), x.offsetX)
        deltaY == RSub(Rat(CANVASHEIGHT, 2), x.offsetY)
        zoomFactor == IF eventDeltaY # 0 THEN x.zoomFactor ELSE Rat(1, 1)
        buffer == translate(scale(translate(x.buffer, deltaX, deltaY), zoomFactor),
                            RNeg(deltaX), RNeg(deltaY))
    IN [x EXCEPT !.buffer = buffer, !.zoom = RMul(x.zoom, zoomFactor), !.drawn = TRUE]

\* Explorer.wheel
ExplorerWheel(x, eventDeltaY) ==
    LET deltaX == RSub(Rat(CANVASWIDTH, 2), x.offsetX)
        deltaY == RSub(Rat(CANVASHEIGHT, 2), x.offsetY)
        zoomFactor == IF eventDeltaY < 0 THEN x.zoomFactor
                      ELSE IF eventDeltaY > 0 THEN RInv(x.zoomFactor)
                      ELSE Rat(1, 1)
        buffer == translate(scale(translate(x.buffer, deltaX, deltaY), zoomFactor),
                            RNeg(deltaX), RNeg(deltaY))
    IN [x EXCEPT !.buffer = buffer, !.zoom = RMul(x.zoom, zoomFactor), !.drawn = TRUE]

\* ------------------------------------------------------------------------
\* Tree.js: the state
\* ------------------------------------------------------------------------

VARIABLES
    tree,        \* the nodes reachable from this.root
    running,     \* this.running
    node,        \* this.node: the node being animated, NoNode for null
    detached,    \* this.node belongs to a tree that clear() has discarded
    orphan,      \* that discarded tree (EmptyTree when there is none)
    timeout,     \* the pending frame timer this.timeout refers to, or NoTimer
    lost,        \* pending frame timers that this.timeout no longer refers to
    completions, \* the pending timers of stopAnimation: a bag of callbacks
    hung,        \* the page is stuck in the loop of uniqueRandom
    cmd,         \* history: the last command a button issued
    ev,          \* history: the last step that was executed
    steps,       \* history: frames executed since the last startAnimation
    inserted,    \* history: the values given to Tree.addValue since the last clear
    done,        \* history: completion callbacks run by the fill that cmd remembers
    explorer,    \* the Explorer, with the transformation of the graphics buffer
    view         \* history: the events the Explorer has handled

vars == <<tree, running, node, detached, orphan, timeout, lost, completions,
          hung, cmd, ev, steps, inserted, done, explorer, view>>

\* a callback given to stopAnimation: fn = "complete" is a default `() => {}`
\* (of "fill": the default of fillVisual, which fillFrame hands on; of "default":
\* any other), fn = "fillFrame" is fillFrame.bind(this) with the arguments
\* count, filled and the `complete` of fillVisual
Complete(of) == [fn |-> "complete", count |-> 0, filled |-> 0, of |-> of]

FillCallback(count, filled) ==
    [fn |-> "fillFrame", count |-> count, filled |-> filled, of |-> "fill"]

\* a frame scheduled by continueAnimation, with its arguments
Frame(frame, value, count, filled, complete) ==
    [frame |-> frame, value |-> value, count |-> count, filled |-> filled,
     complete |-> complete]

\* this.timeout refers to no pending timer (null, fired or cleared)
NoTimer == Frame("none", Null, 0, 0, Complete("none"))

\* the fields of the Tree object, as one record the methods transform
Store ==
    [tree |-> tree, running |-> running, node |-> node, detached |-> detached,
     orphan |-> orphan, timeout |-> timeout, lost |-> lost,
     completions |-> completions, hung |-> hung, steps |-> steps]

\* new Tree(x, y, backgroundColor), then new Controls(tree)
Init ==
    /\ tree = EmptyTree
    /\ running = FALSE
    /\ node = NoNode
    /\ detached = FALSE
    /\ orphan = EmptyTree
    /\ timeout = NoTimer
    /\ lost = {}
    /\ completions = EmptyBag
    /\ hung = FALSE
    /\ cmd = [name |-> "other", arg |-> 0]
    /\ ev = [step |-> "new", value |-> Null]
    /\ steps = 0
    /\ inserted = {}
    /\ done = 0
    /\ explorer = NewExplorer
    /\ view = [events |-> 0, up |-> 0, down |-> 0, movementX |-> 0, movementY |-> 0]

\* ------------------------------------------------------------------------
\* Tree.js: the methods
\* ------------------------------------------------------------------------

\* the tree this.node belongs to
CursorTree(s) == IF s.detached THEN s.orphan ELSE s.tree

WithCursorTree(s, t) ==
    IF s.detached THEN [s EXCEPT !.orphan = t] ELSE [s EXCEPT !.tree = t]

\* Tree.clear that empties the root it has instead of making a new one
TreeClearKeepsNodes(s) ==
    [s EXCEPT !.tree = [s.tree EXCEPT ![RootRef].value = Null]]

\* Tree.clear: a new root; the old nodes stay alive while this.node refers to one
TreeClear(s) ==
    IF s.node # NoNode /\ ~s.detached
    THEN [s EXCEPT !.tree = EmptyTree, !.detached = TRUE, !.orphan = s.tree]
    ELSE [s EXCEPT !.tree = EmptyTree]

\* Tree.search
TreeSearch(t, value) == NodeSearch(t, RootRef, value)

\* Tree.uniqueRandom: the values it can return; it loops for ever when there is none
uniqueRandom(t, max) == {value \in 0 .. (max - 1) : ~TreeSearch(t, value)}

\* Tree.setCoordinates
TreeSetCoordinates(t, n) ==
    IF n = RootRef THEN NodeSetCoordinatesAt(t, n, TREEX, TREEY)
    ELSE NodeSetCoordinates(t, n)

\* Tree.addValue that starts from a new root
TreeAddValueNewRoot(t, value) ==
    LET r == NodeAddValue(EmptyTree, RootRef, value)
    IN [t |-> TreeSetCoordinates(r.t, r.ret), threw |-> FALSE]

\* Tree.addValue that returns when Node.addValue returned undefined
TreeAddValueNoThrow(t, value) ==
    LET r == NodeAddValue(t, RootRef, value)
    IN IF r.ret = Undefined THEN [t |-> r.t, threw |-> FALSE]
       ELSE [t |-> TreeSetCoordinates(r.t, r.ret), threw |-> FALSE]

\* Tree.addValue: the tree afterwards, and whether the call threw (Node.addValue
\* returned undefined, so that setCoordinates was called on undefined)
TreeAddValue(t, value) ==
    LET r == NodeAddValue(t, RootRef, value)
    IN IF r.ret = Undefined THEN [t |-> r.t, threw |-> TRUE]
       ELSE [t |-> TreeSetCoordinates(r.t, r.ret), threw |-> FALSE]

\* the loop of Tree.fill from its i-th turn on, where uniqueRandom returns
\* draws[i + 1], draws[i + 2], ...: the tree afterwards, whether the loop of
\* uniqueRandom never ends, and whether uniqueRandom can return these draws
RECURSIVE TreeFillFrom(_, _, _, _)
TreeFillFrom(t, count, draws, i) ==
    IF i = count THEN [t |-> t, hung |-> FALSE, drawn |-> TRUE]
    ELSE IF uniqueRandom(t, count) = {} THEN [t |-> t, hung |-> TRUE, drawn |-> TRUE]
    ELSE IF draws[i + 1] \notin uniqueRandom(t, count)
         THEN [t |-> t, hung |-> FALSE, drawn |-> FALSE]
    ELSE TreeFillFrom(TreeAddValue(t, draws[i + 1]).t, count, draws, i + 1)

\* the runs of the loop of Tree.fill(count), which starts on the tree that
\* clear() has left: one for each sequence of values uniqueRandom can return
FillRuns ==
    [count \in Counts |->
        {run \in {[t |-> TreeFillFrom(EmptyTree, count, draws, 0).t,
                   hung |-> TreeFillFrom(EmptyTree, count, draws, 0).hung,
                   drawn |-> TreeFillFrom(EmptyTree, count, draws, 0).drawn,
                   draws |-> draws] : draws \in [1 .. count -> 0 .. (count - 1)]} :
            run.drawn}]

\* Tree.fill, its loop taking the run `run`
TreeFill(s, run) == [TreeClear(s) EXCEPT !.tree = run.t, !.hung = run.hung]

\* Tree.resetVisuals
TreeResetVisuals(t) == NodeResetVisuals(t, RootRef)

\* Tree.continueAnimation: this.timeout = setTimeout(frame)
continueAnimation(s, f) ==
    [s EXCEPT !.timeout = f,
              !.lost = IF s.timeout = NoTimer THEN s.lost ELSE s.lost \cup {s.timeout}]

\* Tree.startAnimation without the call of resetVisuals
startAnimationNoReset(s, f) ==
    IF s.running THEN s
    ELSE continueAnimation(
            [s EXCEPT !.running = TRUE, !.node = RootRef, !.detached = FALSE,
                      !.orphan = EmptyTree, !.steps = 0], f)

\* Tree.startAnimation; when it throws, nothing after it runs in any caller
startAnimation(s, f) ==
    IF s.running THEN s
    ELSE continueAnimation(
            [s EXCEPT !.running = TRUE, !.node = RootRef, !.detached = FALSE,
                      !.orphan = EmptyTree, !.steps = 0,
                      !.tree = TreeResetVisuals(s.tree)], f)

\* Tree.stopAnimation
stopAnimation(s, complete) ==
    [s EXCEPT !.running = FALSE, !.node = NoNode, !.detached = FALSE,
              !.orphan = EmptyTree, !.timeout = NoTimer,
              !.completions = s.completions (+) SetToBag({complete})]

\* Tree.addValueVisual
addValueVisual(s, value, complete) ==
    startAnimation(s, Frame("addValueFrame", value, 0, 0, complete))

\* Tree.addValueFrame that moves to the wrong child
addValueFrameWrongSide(s, value, complete) ==
    LET n == s.node
        ct == CursorTree(s)
    IN IF ~isFilled(ct, n) THEN
           LET added == TreeAddValue(s.tree, value)
               s1 == [s EXCEPT !.tree = added.t]
           IN IF added.threw THEN s1
              ELSE stopAnimation(
                      WithCursorTree(s1, paint(CursorTree(s1), n, "SUCCESS")), complete)
       ELSE
           LET s1 == WithCursorTree(s, paint(ct, n, "VISITED"))
               next == IF value < ct[n].value THEN ct[n].rightNode
                       ELSE IF value > ct[n].value THEN ct[n].leftNode
                       ELSE n
           IN continueAnimation([s1 EXCEPT !.node = next],
                                Frame("addValueFrame", value, 0, 0, complete))

\* Tree.addValueFrame that stops the animation at a node that holds the value
addValueFrameStopsOnEqual(s, value, complete) ==
    LET n == s.node
        ct == CursorTree(s)
    IN IF ~isFilled(ct, n) THEN
           LET added == TreeAddValue(s.tree, value)
               s1 == [s EXCEPT !.tree = added.t]
           IN IF added.threw THEN s1
              ELSE stopAnimation(
                      WithCursorTree(s1, paint(CursorTree(s1), n, "SUCCESS")), complete)
       ELSE IF value = ct[n].value THEN
           stopAnimation(WithCursorTree(s, paint(ct, n, "VISITED")), complete)
       ELSE
           LET s1 == WithCursorTree(s, paint(ct, n, "VISITED"))
               next == IF value < ct[n].value THEN ct[n].leftNode ELSE ct[n].rightNode
           IN continueAnimation([s1 EXCEPT !.node = next],
                                Frame("addValueFrame", value, 0, 0, complete))

\* Tree.addValueFrame
addValueFrame(s, value, complete) ==
    LET n == s.node
        ct == CursorTree(s)
    IN IF ~isFilled(ct, n) THEN
           LET added == TreeAddValue(s.tree, value)
               s1 == [s EXCEPT !.tree = added.t]
           IN IF added.threw THEN s1
              ELSE stopAnimation(
                      WithCursorTree(s1, paint(CursorTree(s1), n, "SUCCESS")), complete)
       ELSE
           LET s1 == WithCursorTree(s, paint(ct, n, "VISITED"))
               next == IF value < ct[n].value THEN ct[n].leftNode
                       ELSE IF value > ct[n].value THEN ct[n].rightNode
                       ELSE n
           IN continueAnimation([s1 EXCEPT !.node = next],
                                Frame("addValueFrame", value, 0, 0, complete))

\* Tree.searchVisual
searchVisual(s, value, complete) ==
    startAnimation(s, Frame("searchFrame", value, 0, 0, complete))

\* Tree.searchFrame with nextHalf and cutHalf exchanged
searchFrameSwapped(s, value, complete) ==
    LET n == s.node
        ct == CursorTree(s)
        again == Frame("searchFrame", value, 0, 0, complete)
    IN IF ct[n].color # "VISITED" THEN
           continueAnimation([s EXCEPT !.tree = paint(s.tree, RootRef, "VISITED")], again)
       ELSE IF ~isFilled(ct, n) THEN
           stopAnimation(s, complete)
       ELSE IF ct[n].value = value THEN
           stopAnimation(WithCursorTree(s, paint(ct, n, "SUCCESS")), complete)
       ELSE
           LET nextHalf == IF value < ct[n].value THEN ct[n].rightNode ELSE ct[n].leftNode
               cutHalf == IF value < ct[n].value THEN ct[n].leftNode ELSE ct[n].rightNode
               t1 == paint(recursivePaint(ct, cutHalf, "FAILURE"), nextHalf, "VISITED")
           IN continueAnimation([WithCursorTree(s, t1) EXCEPT !.node = nextHalf], again)

\* Tree.searchFrame
searchFrame(s, value, complete) ==
    LET n == s.node
        ct == CursorTree(s)
        again == Frame("searchFrame", value, 0, 0, complete)
    IN IF ct[n].color # "VISITED" THEN
           continueAnimation([s EXCEPT !.tree = paint(s.tree, RootRef, "VISITED")], again)
       ELSE IF ~isFilled(ct, n) THEN
           stopAnimation(s, complete)
       ELSE IF ct[n].value = value THEN
           stopAnimation(WithCursorTree(s, paint(ct, n, "SUCCESS")), complete)
       ELSE
           LET nextHalf == IF value < ct[n].value THEN ct[n].leftNode ELSE ct[n].rightNode
               cutHalf == IF value < ct[n].value THEN ct[n].rightNode ELSE ct[n].leftNode
               t1 == paint(recursivePaint(ct, cutHalf, "FAILURE"), nextHalf, "VISITED")
           IN continueAnimation([WithCursorTree(s, t1) EXCEPT !.node = nextHalf], again)

\* Tree.fillFrame that stops one insertion early
fillFrameStopsEarly(s, count, filled, rnd) ==
    IF filled + 1 >= count THEN stopAnimation(s, Complete("fill"))
    ELSE LET s1 == stopAnimation(s, Complete("default"))
         IN IF uniqueRandom(s1.tree, count) = {} THEN [s1 EXCEPT !.hung = TRUE]
            ELSE startAnimation(s1, Frame("addValueFrame", rnd, 0, 0,
                                          FillCallback(count, filled + 1)))

\* Tree.fillFrame, with rnd the value uniqueRandom returns
fillFrame(s, count, filled, rnd) ==
    IF filled = count THEN stopAnimation(s, Complete("fill"))
    ELSE LET s1 == stopAnimation(s, Complete("default"))
         IN IF uniqueRandom(s1.tree, count) = {} THEN [s1 EXCEPT !.hung = TRUE]
            ELSE startAnimation(s1, Frame("addValueFrame", rnd, 0, 0,
                                          FillCallback(count, filled + 1)))

\* Tree.fillVisual
fillVisual(s, count) ==
    startAnimation(TreeClear(s), Frame("fillFrame", Null, count, 0, Complete("fill")))

\* ------------------------------------------------------------------------
\* The steps of the program: a click on a button, or a timer that fires
\* ------------------------------------------------------------------------

\* the fields of the Tree object after a step; no method of Tree or Controls
\* touches the Explorer or the transformation of the buffer
Commit(s) ==
    /\ BagCardinality(s.completions) <= MaxPending
    /\ UNCHANGED <<explorer, view>>
    /\ tree' = s.tree
    /\ running' = s.running
    /\ node' = s.node
    /\ detached' = s.detached
    /\ orphan' = s.orphan
    /\ timeout' = s.timeout
    /\ lost' = s.lost
    /\ completions' = s.completions
    /\ hung' = s.hung

\* Controls.triggerAnimation runs the command only when no animation is running
Triggered == ~hung /\ ~running

\* history: the step count of an animation is kept until the step after its end
Counted(s) == steps' = IF s.running THEN s.steps ELSE 0

\* history: the command of a button.  Remembered are Clear, and Fill (with its
\* count) when no timer of an earlier fill animation was pending
Command(name, arg) ==
    /\ cmd' = [name |-> name, arg |-> arg]
    /\ done' = 0

\* history: what the step did, and the value it was about
Did(step, value) == ev' = [step |-> step, value |-> value]

\* Controls.clear
ControlsClear(s) == stopAnimation(TreeClear(s), Complete("default"))

\* the Clear button
Clear ==
    /\ Triggered
    /\ Commit(ControlsClear(Store))
    /\ Counted(ControlsClear(Store))
    /\ inserted' = {}
    /\ Command("clear", 0)
    /\ Did("clear", Null)

\* the Quick Fill button: Controls.quickFill
QuickFill ==
    /\ Triggered
    /\ \E count \in Counts : \E run \in FillRuns[count] :
          /\ Commit(TreeFill(Store, run))
          /\ Counted(Store)
          /\ inserted' = {run.draws[i] : i \in 1 .. count}
          /\ Command("other", 0)
          /\ Did("quickFill", count)

\* no timer of an earlier fill animation is pending
NoFillPending == \A c \in BagToSet(completions) : c.of # "fill"

\* the Fill button: Controls.slowFill
SlowFill ==
    /\ Triggered
    /\ \E count \in Counts :
          /\ Commit(fillVisual(Store, count))
          /\ Counted(fillVisual(Store, count))
          /\ inserted' = {}
          /\ IF NoFillPending THEN Command("fill", count) ELSE Command("other", 0)
          /\ Did("fill", Null)

\* the Add button: Controls.add
Add ==
    /\ Triggered
    /\ \E value \in Vals :
          /\ LET s1 == IF TreeSearch(tree, value) THEN Store
                       ELSE addValueVisual(Store, value, Complete("default"))
             IN Commit(s1) /\ Counted(s1)
          /\ Command("other", 0)
          /\ Did("add", Null)
    /\ UNCHANGED inserted

\* the Search button: Controls.search
Search ==
    /\ Triggered
    /\ \E value \in SearchVals :
          /\ LET s1 == searchVisual(Store, value, Complete("default"))
             IN Commit(s1) /\ Counted(s1)
          /\ Command("other", 0)
          /\ Did("search", Null)
    /\ UNCHANGED inserted

\* the frame timers that have not fired
PendingFrames ==
    IF steps < MaxSteps THEN (IF timeout = NoTimer THEN {} ELSE {timeout}) \cup lost
    ELSE {}

\* the Tree object when the timer of frame f fires
Fired(f) ==
    IF f = timeout THEN [Store EXCEPT !.timeout = NoTimer, !.steps = steps + 1]
    ELSE [Store EXCEPT !.lost = lost \ {f}, !.steps = steps + 1]

\* what a step of addValueFrame did
AddValueStep(s, s1) ==
    IF s1.running THEN (IF s1.timeout = NoTimer THEN "insertThrew" ELSE "frame")
    ELSE "insert"

\* a timer set by continueAnimation fires: one frame of the insert animation
AddValueFrameFires ==
    /\ ~hung
    /\ \E f \in PendingFrames :
          /\ f.frame = "addValueFrame"
          /\ LET s1 == addValueFrame(Fired(f), f.value, f.complete)
             IN /\ Commit(s1)
                /\ steps' = s1.steps
                /\ Did(AddValueStep(Fired(f), s1), IF s1.running THEN Null ELSE f.value)
                /\ inserted' = IF s1.running THEN inserted
                               ELSE inserted \cup {f.value}
    /\ UNCHANGED <<cmd, done>>

\* what a step of searchFrame did
SearchStep(s, value) ==
    LET c == CursorTree(s)[s.node]
    IN IF c.color # "VISITED" THEN "frame"
       ELSE IF c.value = Null THEN "absent"
       ELSE IF c.value = value THEN "found"
       ELSE "frame"

\* a timer set by continueAnimation fires: one frame of the search animation
SearchFrameFires ==
    /\ ~hung
    /\ \E f \in PendingFrames :
          /\ f.frame = "searchFrame"
          /\ LET s1 == searchFrame(Fired(f), f.value, f.complete)
             IN /\ Commit(s1)
                /\ steps' = s1.steps
                /\ Did(SearchStep(Fired(f), f.value),
                       IF s1.running THEN Null ELSE f.value)
    /\ UNCHANGED <<cmd, done, inserted>>

\* what a step of fillFrame did
FillStep(s1) ==
    IF s1.hung THEN "fillHung" ELSE "frame"

\* the first frame of the fill animation, scheduled by fillVisual
FillFrameFires ==
    /\ ~hung
    /\ \E f \in PendingFrames : \E rnd \in 0 .. (f.count - 1) \cup {Null} :
          /\ f.frame = "fillFrame"
          /\ rnd \in (IF f.filled = f.count \/ uniqueRandom(tree, f.count) = {}
                      THEN {Null} ELSE uniqueRandom(tree, f.count))
          /\ LET s1 == fillFrame(Fired(f), f.count, f.filled, rnd)
             IN /\ Commit(s1)
                /\ Counted(s1)
                /\ Did(FillStep(s1), Null)
    /\ UNCHANGED <<cmd, done, inserted>>

\* the Tree object when the timer of callback c, set by stopAnimation, fires
Called(c) == [Store EXCEPT !.completions = completions (-) SetToBag({c})]

\* a timer set by stopAnimation fires and calls a default `() => {}`
CompleteFires ==
    /\ ~hung
    /\ \E c \in BagToSet(completions) :
          /\ c.fn = "complete"
          /\ Commit(Called(c))
          /\ Counted(Called(c))
          /\ Did("complete", Null)
          /\ done' = IF c.of = "fill" /\ cmd.name = "fill" THEN done + 1 ELSE done
    /\ UNCHANGED <<cmd, inserted>>

\* a timer set by stopAnimation fires and calls fillFrame(count, filled, complete)
FillContinues ==
    /\ ~hung
    /\ \E c \in BagToSet(completions) : \E rnd \in 0 .. (c.count - 1) \cup {Null} :
          /\ c.fn = "fillFrame"
          /\ rnd \in (IF c.filled = c.count \/ uniqueRandom(tree, c.count) = {}
                      THEN {Null} ELSE uniqueRandom(tree, c.count))
          /\ LET s1 == fillFrame(Called(c), c.count, c.filled, rnd)
             IN /\ Commit(s1)
                /\ Counted(s1)
                /\ Did(FillStep(s1), Null)
    /\ UNCHANGED <<cmd, done, inserted>>

\* the page as sketch.js sets it up: the buttons of Controls and the timers
Next ==
    \/ Clear
    \/ QuickFill
    \/ SlowFill
    \/ Add
    \/ Search
    \/ AddValueFrameFires
    \/ SearchFrameFires
    \/ FillFrameFires
    \/ CompleteFires
    \/ FillContinues

Spec == Init /\ [][Next]_vars

\* ------------------------------------------------------------------------
\* The same page, with a caller that also calls the Tree's animation methods
\* while an animation is running (startAnimation then throws)
\* ------------------------------------------------------------------------

Rejected ==
    /\ Did("rejected", Null)
    /\ UNCHANGED <<cmd, done, steps>>

\* tree.addValueVisual(value) while running
AddValueVisualWhileRunning ==
    /\ ~hung /\ running
    /\ \E value \in Vals : Commit(addValueVisual(Store, value, Complete("default")))
    /\ Rejected
    /\ UNCHANGED inserted

\* tree.searchVisual(value) while running
SearchVisualWhileRunning ==
    /\ ~hung /\ running
    /\ \E value \in SearchVals : Commit(searchVisual(Store, value, Complete("default")))
    /\ Rejected
    /\ UNCHANGED inserted

\* tree.fillVisual(count) while running
FillVisualWhileRunning ==
    /\ ~hung /\ running
    /\ \E count \in Counts : Commit(fillVisual(Store, count))
    /\ Rejected
    /\ inserted' = {}

NextAPI ==
    \/ Next
    \/ AddValueVisualWhileRunning
    \/ SearchVisualWhileRunning
    \/ FillVisualWhileRunning

SpecAPI == Init /\ [][NextAPI]_vars

\* ------------------------------------------------------------------------
\* The same page, with a caller that starts insert animations without the
\* search of Controls.add
\* ------------------------------------------------------------------------

\* tree.addValueVisual(value) while no animation is running
AddValueVisualDirect ==
    /\ Triggered
    /\ \E value \in Vals :
          LET s1 == addValueVisual(Store, value, Complete("default"))
          IN Commit(s1) /\ Counted(s1)
    /\ Command("other", 0)
    /\ Did("add", Null)
    /\ UNCHANGED inserted

NextDirect ==
    \/ Next
    \/ AddValueVisualDirect

SpecDirect == Init /\ [][NextDirect]_vars

\* ------------------------------------------------------------------------
\* The synchronous methods of Tree, called by a script on a tree that no
\* animation runs on: addValue, search, clear and fill
\* ------------------------------------------------------------------------

\* what no synchronous method changes
SyncUnchanged == UNCHANGED <<cmd, steps, done>>

\* tree.addValue(value)
SyncAddValue ==
    /\ ~hung
    /\ \E value \in SyncVals :
          LET added == TreeAddValue(tree, value)
          IN /\ Commit([Store EXCEPT !.tree = added.t])
             /\ Did(IF added.threw THEN "syncThrew" ELSE "syncInsert", value)
             /\ inserted' = inserted \cup {value}
    /\ SyncUnchanged

\* tree.search(value)
SyncSearch ==
    /\ ~hung
    /\ \E value \in 0 .. MaxSync :
          Did(IF TreeSearch(tree, value) THEN "syncFound" ELSE "syncAbsent", value)
    /\ Commit(Store)
    /\ UNCHANGED inserted
    /\ SyncUnchanged

\* tree.clear(); history: the number of values the tree held
SyncClear ==
    /\ ~hung
    /\ Commit(TreeClear(Store))
    /\ Did("syncClear", Cardinality(inserted))
    /\ inserted' = {}
    /\ SyncUnchanged

\* tree.fill(count)
SyncFill ==
    /\ ~hung
    /\ \E count \in Counts : \E run \in FillRuns[count] :
          /\ Commit(TreeFill(Store, run))
          /\ Did("syncFill", count)
          /\ inserted' = {run.draws[i] : i \in 1 .. count}
    /\ SyncUnchanged

NextSync ==
    \/ SyncAddValue
    \/ SyncSearch
    \/ SyncClear
    \/ SyncFill

SpecSync == Init /\ [][NextSync]_vars

\* ------------------------------------------------------------------------
\* The events of the canvas that the Explorer listens to: mousemove and wheel
\* ------------------------------------------------------------------------

\* event.movementX and event.movementY of a mousemove event
Movements == {-3, 0, 2}

\* the sign of event.deltaY of a wheel event
WheelDeltas == {-1, 0, 1}

\* history: one more event handled
Handled(up, down, movementX, movementY) ==
    /\ view.events < MaxEvents
    /\ view' = [events |-> view.events + 1, up |-> view.up + up,
                down |-> view.down + down,
                movementX |-> movementX, movementY |-> movementY]

\* drawFunction only reads the tree
TreeUnchanged ==
    UNCHANGED <<tree, running, node, detached, orphan, timeout, lost,
                completions, hung, cmd, steps, inserted, done>>

\* the pointer moves over the canvas with a button held down
Pan ==
    \E movementX \in Movements, movementY \in Movements :
        /\ explorer' = ExplorerMouseMove(explorer, TRUE, movementX, movementY)
        /\ Handled(0, 0, movementX, movementY)
        /\ Did("pan", Null)
        /\ TreeUnchanged

\* the pointer moves over the canvas with no button held down
Hover ==
    \E movementX \in Movements, movementY \in Movements :
        /\ explorer' = ExplorerMouseMove(explorer, FALSE, movementX, movementY)
        /\ Handled(0, 0, movementX, movementY)
        /\ Did("hover", Null)
        /\ TreeUnchanged

\* the wheel turns over the canvas
Wheel ==
    \E deltaY \in WheelDeltas :
        /\ explorer' = ExplorerWheel(explorer, deltaY)
        /\ Handled(IF deltaY < 0 THEN 1 ELSE 0, IF deltaY > 0 THEN 1 ELSE 0, 0, 0)
        /\ Did("wheel", deltaY)
        /\ TreeUnchanged

NextExplorer ==
    \/ Pan
    \/ Hover
    \/ Wheel

SpecExplorer == Init /\ [][NextExplorer]_vars

\* ------------------------------------------------------------------------
\* Notions the properties are stated in
\* ------------------------------------------------------------------------

\* the filled nodes of a tree
Filled(t) == {n \in DOMAIN t : isFilled(t, n)}

\* the values a tree holds
Values(t) == {t[n].value : n \in Filled(t)}

\* the nodes of the subtree of n, following leftNode and rightNode
RECURSIVE Subtree(_, _)
Subtree(t, n) ==
    IF n = NoNode THEN {}
    ELSE {n} \cup Subtree(t, t[n].leftNode) \cup Subtree(t, t[n].rightNode)

\* the proper ancestors of n, following parent
RECURSIVE Ancestors(_, _)
Ancestors(t, n) ==
    IF t[n].parent = NoNode THEN {}
    ELSE {t[n].parent} \cup Ancestors(t, t[n].parent)

\* the depth of n: the root has depth 0
Depth(t, n) == Cardinality(Ancestors(t, n))

\* the nodes that hold value v
Holding(t, v) == {n \in Filled(t) : t[n].value = v}

\* the nodes the search for v compares with v, from node n downwards, the last
\* one being the node that holds v or the unfilled node the search ends at
RECURSIVE SearchPath(_, _, _)
SearchPath(t, n, v) ==
    IF ~isFilled(t, n) \/ t[n].value = v THEN {n}
    ELSE {n} \cup SearchPath(t, IF v < t[n].value THEN t[n].leftNode
                                ELSE t[n].rightNode, v)

\* the child of n on the side that a search for v excludes
CutHalf(t, n, v) == IF v < t[n].value THEN t[n].rightNode ELSE t[n].leftNode

\* the nodes of tree t that carry colour c
Coloured(t, c) == {n \in DOMAIN t : t[n].color = c}

\* a search animation has just stopped
SearchStopped == ev.step \in {"found", "absent"}

\* the Fill button was pressed while no timer of an earlier fill was pending, and
\* no button has been pressed since
FillAlone == cmd.name = "fill"

\* ------------------------------------------------------------------------
\* The properties
\* ------------------------------------------------------------------------

\* C1: after any sequence of insertions of distinct values into an empty tree,
\* search(v) is true for every value that was inserted and false for every value
\* that was not.
C1_SearchFindsExactlyInserted ==
    \A v \in 0 .. MaxVal : TreeSearch(tree, v) <=> v \in inserted

\* three values were inserted and are found, and a value never inserted is not
C1_Witness ==
    /\ Cardinality(inserted) >= 3
    /\ \A v \in inserted : TreeSearch(tree, v)
    /\ ~TreeSearch(tree, MaxVal)
    /\ ev.step = "insert"

\* C2: every filled node satisfies the order of a binary search tree: the values
\* in its left subtree are smaller than its value, those in its right subtree larger.
C2_BSTOrder ==
    \A n \in Filled(tree) :
        /\ \A m \in Filled(tree) \cap Subtree(tree, tree[n].leftNode) :
              tree[m].value < tree[n].value
        /\ \A m \in Filled(tree) \cap Subtree(tree, tree[n].rightNode) :
              tree[m].value > tree[n].value

\* an insertion has just filled a node of a tree in which some node has two
\* filled children
C2_Witness ==
    /\ ev.step = "insert"
    /\ \E n \in Filled(tree) :
          isFilled(tree, tree[n].leftNode) /\ isFilled(tree, tree[n].rightNode)

\* C3: while a fill animation is in progress, from its start until all count
\* insertions have completed, the running flag is true whenever a command can
\* be issued.
C3_RunningUntilFillCompletes ==
    (FillAlone /\ Cardinality(inserted) < cmd.arg) => running

\* C4: a call of addValueVisual, searchVisual or fillVisual while an animation is
\* running changes nothing: not the running flag, the cursor, the pending step
\* or the tree.
C4_RejectedCallChangesNothing ==
    [][ev'.step = "rejected" =>
          UNCHANGED <<tree, running, node, detached, orphan, timeout, lost,
                      completions>>]_vars

\* C5: after Controls.clear() nothing of an earlier animation runs: until the
\* next command the tree stays empty and running stays false.
C5_NothingRunsAfterClear ==
    cmd.name = "clear" => (~running /\ tree = EmptyTree)

C7_InsertAnimationSteps ==
    ev.step = "insert" =>
        /\ Cardinality(Holding(tree, ev.value)) = 1
        /\ \A n \in Holding(tree, ev.value) :
              /\ steps = Depth(tree, n) + 1
              /\ Cardinality(Coloured(tree, "VISITED") \cap Filled(tree)) = Depth(tree, n)

\* an insert animation has just inserted a value at depth 2
C7_Witness ==
    /\ ev.step = "insert"
    /\ \E n \in Holding(tree, ev.value) : Depth(tree, n) = 2

\* C8: when the insert animation of an absent value stops, the node that holds
\* the value is Success, its proper ancestors are Visited and every other filled
\* node has the default colour.
C8_InsertAnimationColours ==
    ev.step = "insert" =>
        \A n \in Holding(tree, ev.value) :
            /\ tree[n].color = "SUCCESS"
            /\ \A a \in Ancestors(tree, n) : tree[a].color = "VISITED"
            /\ \A m \in Filled(tree) \ ({n} \cup Ancestors(tree, n)) :
                  tree[m].color = "COLOR"

\* an insert animation has just inserted a value below the root of a tree that
\* has a filled node off its path
C8_Witness ==
    /\ ev.step = "insert"
    /\ \E n \in Holding(tree, ev.value) :
          /\ Ancestors(tree, n) # {}
          /\ Filled(tree) \ ({n} \cup Ancestors(tree, n)) # {}

\* C9: when the search animation for v stops, exactly one node is Success, the
\* one that holds v, if search(v) is true, and no node is Success if it is false.
C9_SearchAnimationAgrees ==
    SearchStopped =>
        /\ (ev.step = "found") <=> TreeSearch(tree, ev.value)
        /\ IF TreeSearch(tree, ev.value)
           THEN /\ Coloured(tree, "SUCCESS") = Holding(tree, ev.value)
                /\ Cardinality(Coloured(tree, "SUCCESS")) = 1
           ELSE Coloured(tree, "SUCCESS") = {}

\* a search animation has just found its value below the root
C9_Witness ==
    /\ ev.step = "found"
    /\ \E n \in Holding(tree, ev.value) : Depth(tree, n) >= 1

\* C10: when the search animation for v stops, every filled node of a subtree
\* that a comparison excluded is Failure, every node of the search path above
\* the last one is Visited, the filled nodes below the node that holds v keep
\* the default colour, and if v is absent every filled node is Visited or Failure.
C10_SearchAnimationColours ==
    SearchStopped =>
        LET v == ev.value
            path == SearchPath(tree, RootRef, v)
            above == {n \in path : isFilled(tree, n) /\ tree[n].value # v}
        IN /\ \A n \in above :
                 /\ tree[n].color = "VISITED"
                 /\ \A m \in Filled(tree) \cap Subtree(tree, CutHalf(tree, n, v)) :
                       tree[m].color = "FAILURE"
           /\ \A n \in Holding(tree, v) :
                 \A m \in (Filled(tree) \cap Subtree(tree, n)) \ {n} :
                     tree[m].color = "COLOR"
           /\ ev.step = "absent" =>
                 Filled(tree) \subseteq
                     (Coloured(tree, "VISITED") \cup Coloured(tree, "FAILURE"))

\* a search animation has just stopped after it excluded a subtree of two nodes
C10_Witness ==
    /\ SearchStopped
    /\ Cardinality(Coloured(tree, "FAILURE")) >= 2
    /\ \E n \in Coloured(tree, "FAILURE") :
          tree[n].parent \in Coloured(tree, "FAILURE")

\* the smallest and the largest x-coordinate of the nodes S of tree t
MinX(t, S) == CHOOSE x \in {t[m].x : m \in S} : \A m \in S : x <= t[m].x

MaxX(t, S) == CHOOSE x \in {t[m].x : m \in S} : \A m \in S : x >= t[m].x

\* the filled nodes of the subtree of n
FilledBelow(t, n) == Filled(t) \cap Subtree(t, n)

\* the steps in which a button runs its command
Commands == {"add", "search", "fill", "quickFill", "clear"}

\* C11: after clear(), following any sequence of inserts, the tree is exactly one
\* node, the unfilled root without parent, and search(v) is false for every v.
C11_ClearLeavesEmptyRoot ==
    ev.step = "syncClear" =>
        /\ DOMAIN tree = {RootRef}
        /\ ~isFilled(tree, RootRef)
        /\ tree[RootRef].parent = NoNode
        /\ \A v \in 0 .. MaxSync : ~TreeSearch(tree, v)

\* clear() has just emptied a tree that held three values or more
C11_Witness == ev.step = "syncClear" /\ ev.value >= 3

\* C12: a synchronous insert of a value that is already in the tree fails, and
\* leaves every node of the tree, with all its fields, as it was.
C12_DuplicateInsertFailsUnchanged ==
    [][(ev'.step \in {"syncInsert", "syncThrew"} /\ ev'.value \in Values(tree)) =>
          (ev'.step = "syncThrew" /\ tree' = tree)]_vars

\* the insert of a value held below the root of a tree of three nodes or more
\* has just failed
C12_Witness ==
    /\ ev.step = "syncThrew"
    /\ Cardinality(Filled(tree)) >= 3
    /\ \E n \in Holding(tree, ev.value) : Depth(tree, n) >= 1

\* a step that ends an animation (a terminal frame, or the stopAnimation of
\* Controls.clear) does not run the completion callback: it leaves it as one more
\* pending timer (the store is idle and the continuation has started nothing),
\* and a pending callback runs in a step of its own that uses up exactly its one
\* timer
CompletionScheduledNotRun ==
    [][/\ ev'.step \in {"insert", "found", "absent", "clear"} =>
             /\ completions \sqsubseteq completions'
             /\ BagCardinality(completions') = BagCardinality(completions) + 1
             /\ ~running' /\ timeout' = NoTimer /\ node' = NoNode
       /\ ev'.step = "complete" =>
             /\ completions' \sqsubseteq completions
             /\ BagCardinality(completions') = BagCardinality(completions) - 1
             /\ tree' = tree]_vars

\* C13: the completion continuation handed to stopAnimation is invoked exactly
\* once, in a later step of its own: while a continuation (fillFrame, bound to
\* its arguments) is pending, the page is able to run it.
C13_PendingContinuationRuns ==
    \A c \in BagToSet(completions) : c.fn = "fillFrame" => ~hung

\* C14: between the terminal insert step and the firing of the delayed completion
\* no command starts an animation and the new node stays Success.
C14_IdleOnlyAfterCompletion ==
    [][(ev.step = "insert" /\ ev'.step \in Commands) =>
          /\ ~running'
          /\ \A n \in Holding(tree, ev.value) :
                n \in DOMAIN tree' /\ tree'[n].color = "SUCCESS"]_vars

\* C15: whenever fill or a step of the fill animation calls uniqueRandom(bound),
\* a value of [0, bound) is absent from the tree, so that the call returns.
C15_UniqueRandomReturns == ~hung

\* C16: every filled node with a filled left child has leftSpacing >=
\* left.cumulativeRightSpacing + 15, and with a filled right child rightSpacing >=
\* right.cumulativeLeftSpacing + 15.
C16_SiblingSubtreesApart ==
    \A n \in Filled(tree) :
        /\ isFilled(tree, tree[n].leftNode) =>
              tree[n].leftSpacing >=
                  tree[tree[n].leftNode].cumulativeRightSpacing + 15
        /\ isFilled(tree, tree[n].rightNode) =>
              tree[n].rightSpacing >=
                  tree[tree[n].rightNode].cumulativeLeftSpacing + 15

\* a node has a filled left child that has a filled right child, and a filled
\* right child that has a filled left child
C16_Witness ==
    \E n \in Filled(tree) :
        /\ isFilled(tree, tree[n].leftNode)
        /\ isFilled(tree, tree[tree[n].leftNode].rightNode)
        /\ isFilled(tree, tree[n].rightNode)
        /\ isFilled(tree, tree[tree[n].rightNode].leftNode)

\* C17: for every filled node N, cumulativeLeftSpacing is N.x minus the smallest x
\* of a filled node in N's subtree and cumulativeRightSpacing the largest such x
\* minus N.x; each is 0 when the child on that side is unfilled.
C17_CumulativeSpacingIsExtent ==
    \A n \in Filled(tree) :
        /\ tree[n].cumulativeLeftSpacing = tree[n].x - MinX(tree, FilledBelow(tree, n))
        /\ tree[n].cumulativeRightSpacing = MaxX(tree, FilledBelow(tree, n)) - tree[n].x
        /\ ~isFilled(tree, tree[n].leftNode) => tree[n].cumulativeLeftSpacing = 0
        /\ ~isFilled(tree, tree[n].rightNode) => tree[n].cumulativeRightSpacing = 0

\* an insertion has just filled a node of a tree that reaches 45 or more to the
\* left of its root and whose root has no right child
C17_Witness ==
    /\ ev.step = "syncInsert"
    /\ tree[RootRef].cumulativeLeftSpacing >= 45
    /\ isFilled(tree, RootRef) /\ ~isFilled(tree, tree[RootRef].rightNode)

\* C18: the root is at the tree's (x, y), and every other filled node is 50 below
\* its parent, parent.leftSpacing to the left of it if it is the left child and
\* parent.rightSpacing to the right of it if it is the right child.
C18_LayoutIsFullRecomputation ==
    \A n \in Filled(tree) :
        IF n = RootRef THEN tree[n].x = TREEX /\ tree[n].y = TREEY
        ELSE LET p == tree[n].parent
             IN /\ tree[n].y = tree[p].y + 50
                /\ tree[p].leftNode = n => tree[n].x = tree[p].x - tree[p].leftSpacing
                /\ tree[p].rightNode = n => tree[n].x = tree[p].x + tree[p].rightSpacing

\* an insertion has just moved the root's left child, which has a filled child
\* on either side
C18_Witness ==
    /\ ev.step = "syncInsert"
    /\ Holding(tree, ev.value) = {<<0, 1, 0>>}
    /\ isFilled(tree, <<0, 0>>)

\* C19: Node.addValue(v) for an absent v returns a node R such that every filled
\* node outside R's subtree keeps its coordinates, and R is the newly filled node
\* or a node whose x has changed.
C19_ReturnedNodeIsShiftedSubtree ==
    [][ev'.step = "syncInsert" =>
          LET R == NodeAddValue(tree, RootRef, ev'.value).ret
          IN /\ \A m \in Filled(tree) \ Subtree(tree', R) :
                   tree'[m].x = tree[m].x /\ tree'[m].y = tree[m].y
             /\ \/ R \in Holding(tree', ev'.value)
                \/ R \in Filled(tree) /\ tree'[R].x # tree[R].x]_vars

\* an insertion at the right of the root's left child has just moved that child
\* and its left child, while the root's right child stays
C19_Witness ==
    /\ ev.step = "syncInsert"
    /\ Holding(tree, ev.value) = {<<0, 1>>}
    /\ isFilled(tree, <<0, 0>>)
    /\ isFilled(tree, <<1>>)

\* C20: for filled nodes a and b with a.value < b.value, b.x - a.x is 15 times
\* the number of stored values w with a.value < w <= b.value.
C20_XFollowsValueOrder ==
    \A a, b \in Filled(tree) :
        tree[a].value < tree[b].value =>
            tree[b].x - tree[a].x =
                15 * Cardinality({w \in Values(tree) :
                                     tree[a].value < w /\ w <= tree[b].value})

\* four values or more are stored, some node has two filled children, and a
\* value of the range is not stored
C20_Witness ==
    /\ Cardinality(Filled(tree)) >= 4
    /\ Values(tree) # SyncVals
    /\ \E n \in Filled(tree) :
          isFilled(tree, tree[n].leftNode) /\ isFilled(tree, tree[n].rightNode)

\* the pairs <<p, side>> such that node n is the child of p on that side
ChildOf(t, n) ==
    {ps \in (DOMAIN t) \X {"leftNode", "rightNode"} :
        IF ps[2] = "leftNode" THEN t[ps[1]].leftNode = n ELSE t[ps[1]].rightNode = n}

\* C21: every filled node has two children, different nodes whose parent is that
\* node; every unfilled node has no children; the root has no parent; every node
\* is reachable from the root and is the child of exactly one node on one side,
\* the root of none.
C21_WellFormedTree ==
    /\ \A n \in DOMAIN tree :
          IF isFilled(tree, n)
          THEN /\ tree[n].leftNode \in DOMAIN tree
               /\ tree[n].rightNode \in DOMAIN tree
               /\ tree[n].leftNode # tree[n].rightNode
               /\ tree[tree[n].leftNode].parent = n
               /\ tree[tree[n].rightNode].parent = n
          ELSE tree[n].leftNode = NoNode /\ tree[n].rightNode = NoNode
    /\ tree[RootRef].parent = NoNode
    /\ ChildOf(tree, RootRef) = {}
    /\ \A n \in DOMAIN tree \ {RootRef} : Cardinality(ChildOf(tree, n)) = 1
    /\ Subtree(tree, RootRef) = DOMAIN tree

\* a tree of four filled nodes or more, one of them with two filled children
C21_Witness ==
    /\ Cardinality(Filled(tree)) >= 4
    /\ Cardinality(DOMAIN tree) = 2 * Cardinality(Filled(tree)) + 1
    /\ \E n \in Filled(tree) :
          isFilled(tree, tree[n].leftNode) /\ isFilled(tree, tree[n].rightNode)

\* the steps that replace the root: Controls.clear, Tree.fill and Tree.fillVisual
RootReplaced == {"clear", "quickFill", "fill"}

\* C22: in a step that does not replace the root a filled node stays reachable
\* and keeps its value; a successful insertion fills exactly one unfilled node
\* and gives it two new unfilled children; every other step (a frame of the search
\* animation, resetVisuals at the start of an animation, painting, a callback)
\* adds and removes no node.
C22_ValuesOnlyGrow ==
    [][ev'.step \notin RootReplaced =>
          /\ \A n \in Filled(tree) :
                n \in DOMAIN tree' /\ tree'[n].value = tree[n].value
          /\ IF ev'.step = "insert"
             THEN \E n \in (DOMAIN tree) \ Filled(tree) :
                     /\ Filled(tree') = Filled(tree) \cup {n}
                     /\ tree'[n].value = ev'.value
                     /\ (DOMAIN tree') \ (DOMAIN tree) =
                            {tree'[n].leftNode, tree'[n].rightNode}
                     /\ Cardinality((DOMAIN tree') \ (DOMAIN tree)) = 2
                     /\ DOMAIN tree \subseteq DOMAIN tree'
             ELSE DOMAIN tree' = DOMAIN tree /\ Filled(tree') = Filled(tree)]_vars

\* an insert animation has just filled the third node of a tree
C22_Witness ==
    /\ ev.step = "insert"
    /\ Cardinality(Filled(tree)) >= 3
    /\ Cardinality(DOMAIN tree) = 7

\* C23: every search animation, also one on an empty tree, executes two frames
\* or more before it stops: the first only paints the root Visited.
C23_SearchTakesTwoSteps == SearchStopped => steps >= 2

\* C24: at the start of every animation, just after resetVisuals(), every node
\* reachable from the root, filled or unfilled, has the default colour and the
\* default edge colour.
C24_AllDefaultAfterReset ==
    (ev.step \in {"add", "search", "fill"} /\ running) =>
        \A n \in DOMAIN tree :
            tree[n].color = "COLOR" /\ tree[n].edgeColor = "EDGECOLOR"

\* the number of animation frames pending in the scheduler: the frames that
\* continueAnimation has scheduled, and the frames of the fill animation
\* (fillFrame) that stopAnimation has scheduled as the callback of an insert
FramesPending ==
    Cardinality((IF timeout = NoTimer THEN {} ELSE {timeout}) \cup lost)
        + BagCardinality([c \in {d \in BagToSet(completions) : d.fn = "fillFrame"} |->
                              CopiesIn(c, completions)])

\* C25: between steps, running is true exactly when one animation frame is
\* pending, never more than one frame is pending, and the cursor node is non-null
\* exactly when running is true.
C25_RunningIffFramePending ==
    /\ running <=> FramesPending = 1
    /\ FramesPending <= 1
    /\ (node # NoNode) <=> running

\* the nodes of a tree with their values, links, spacings and coordinates
Layout(t) == [n \in DOMAIN t |-> [t[n] EXCEPT !.color = "", !.edgeColor = ""]]

\* the pending frame of an insert animation for a value the tree holds fires
DuplicateFrameFires ==
    /\ timeout.frame = "addValueFrame"
    /\ timeout.value \in Values(tree)
    /\ steps' = steps + 1

\* C26: a frame of an insert animation for a value that is in the tree is never
\* terminal: it schedules the next frame of the same animation, running stays
\* true, no completion callback is scheduled, the cursor stays once it is at the
\* node that holds the value, and the values, structure and layout of the tree
\* are unchanged.
C26_DuplicateInsertNeverEnds ==
    [][DuplicateFrameFires =>
          /\ running'
          /\ timeout'.frame = "addValueFrame" /\ timeout'.value = timeout.value
          /\ completions' = completions
          /\ tree[node].value = timeout.value => node' = node
          /\ Layout(tree') = Layout(tree)
          /\ inserted' = inserted]_vars

\* the cursor of an insert animation has been at the node that holds the value,
\* below the root, for three frames or more
C26_Witness ==
    /\ running
    /\ timeout.frame = "addValueFrame"
    /\ node # NoNode /\ node # RootRef
    /\ tree[node].value = timeout.value
    /\ steps >= Depth(tree, node) + 3

\* where the buffer's transformation draws the point (x, y) of the picture
Drawn(m, q) == <<RAdd(RMul(m.a, q[1]), m.e), RAdd(RMul(m.d, q[2]), m.f)>>

\* the centre of the viewport
Centre == <<Rat(CANVASWIDTH, 2), Rat(CANVASHEIGHT, 2)>>

\* the point of the picture that the Explorer's offsets put at the centre
Pivot(x) == <<RSub(Centre[1], x.offsetX), RSub(Centre[2], x.offsetY)>>

\* points of the picture: two points fix a transformation without rotation
Points == {<<Rat(0, 1), Rat(0, 1)>>, <<Rat(TREEX, 1), Rat(TREEY, 1)>>}

\* the transformation of the buffer is the one the offsets and the zoom give
\* (the check of the mutant of ExplorerMouseMove needs the offsets too)
MatchesOffsets(x) ==
    \A q \in Points :
        Drawn(x.buffer, q) =
            <<RAdd(Centre[1], RMul(x.zoom, RSub(q[1], Pivot(x)[1]))),
              RAdd(Centre[2], RMul(x.zoom, RSub(q[2], Pivot(x)[2])))>>

====
